---------------------------- MODULE Spec2Model ----------------------------
(***************************************************************************)
(* PoStep256 I2C driver (src/postep256.py), class PoStep256.               *)
(*                                                                         *)
(* The driver is synchronous and single-threaded: one public method runs   *)
(* to completion before the next one starts.  Each public method is one    *)
(* action.  The action records, for the call it models, the arguments, the *)
(* sequence of calls made on the smbus transport (with their outcomes) and *)
(* the value the method returned or the exception it let escape.           *)
(*                                                                         *)
(* The transport (smbus.SMBus) is outside the repository.  Its outcomes    *)
(* are chosen nondeterministically per call: write_i2c_block_data either   *)
(* returns or raises; read_i2c_block_data(addr, reg, n) either raises or   *)
(* returns a list of exactly n bytes (the I2C block read of python-smbus   *)
(* always hands back the requested number of bytes).                       *)
(*                                                                         *)
(* The entry points are __init__ and the device operations.  The helpers   *)
(* the source marks "not to be used directly" (set_current, set_speed,     *)
(* read_current, read_speed) and the raw accessors (write_data, read_data, *)
(* read_value, convert_to_byte_buffer) are operators the entry points use; *)
(* of these only set_speed is also called directly (SetSpeed), with values *)
(* of any magnitude.                                                       *)
(*                                                                         *)
(* Python values are tagged records: None, bool, int, list, float (kept    *)
(* exactly, in thousandths) and "raise" for an exception that escapes the  *)
(* method.  Python integers are unbounded; the values handed to            *)
(* convert_to_byte_buffer are kept as two limbs <<hi, lo>> of 16 bits      *)
(* (value = hi * 65536 + lo) so that the 32-bit boundary is representable. *)
(***************************************************************************)
EXTENDS Integers, Sequences, FiniteSets, TLC

VARIABLES
    i2c_bus,    \* self.i2c_bus: "unbound" before __init__, "SMBus" or "None"
    devMode,    \* the operating mode the device reports in register 0x14
    op,         \* the public method just called, "idle" between calls
    args,       \* its arguments
    calls,      \* the transport calls it made, in order
    result      \* what it returned (or raised)

vars == <<i2c_bus, devMode, op, args, calls, result>>

----------------------------------------------------------------------------
(* Module constants of postep256.py *)

MAX_TEMP == 120
MAX_CURRENT_MILLI == 6000       \* MAX_CURRENT = 6.0 A, in mA
MAX_SPEED == 60000
MAX_ACCELERATION == 50000
MAX_BUFFER_LENGTH == 5
DRIVER_RUN == 218               \* 0xda
DRIVER_SLEEP == 15              \* 0x0f
MODE_DEFAULT == 1
MODE_POSITION_CONT == 4
MODE_BINX_BUTTONS == 5
MODE_AUTO == 6

----------------------------------------------------------------------------
(* Bounds of the model *)

\* How far beyond each boundary of a numeric domain the arguments are drawn.
Margin == 1

\* Number of distinct non-probe byte values a transport reply may carry.
NoiseBytes == 1

----------------------------------------------------------------------------
(* Python values *)

None == [t |-> "None"]
PyBool(b) == [t |-> "bool", v |-> b]
PyInt(n) == [t |-> "int", v |-> n]
PyList(s) == [t |-> "list", v |-> s]
\* A float kept exactly: milli / (1000 * 2^shift).
PyFloat(milli, shift) == [t |-> "float", milli |-> milli, shift |-> shift]
Raise(e) == [t |-> "raise", e |-> e]

\* What a method hands back: its value and the transport calls it made.
Ret(r, c) == [res |-> r, calls |-> c]

\* Python truthiness of a value, as used by "if not x".
Truthy(x) ==
    CASE x.t = "None" -> FALSE
      [] x.t = "bool" -> x.v
      [] x.t = "int" -> x.v # 0
      [] x.t = "list" -> Len(x.v) > 0
      [] OTHER -> TRUE

\* Two-limb integers: <<hi, lo>> stands for hi * 65536 + lo, 0 <= lo < 65536.
Big(n) == <<n \div 65536, n % 65536>>

Reverse(s) == [i \in 1..Len(s) |-> s[Len(s) + 1 - i]]

----------------------------------------------------------------------------
(* The smbus transport *)

\* Outcome of one read_i2c_block_data call: it raised, or returned data.
ReadFail == [ok |-> FALSE, data |-> <<>>]
ReadOk(s) == [ok |-> TRUE, data |-> s]

WriteCall(register, buffer, ok) ==
    [kind |-> "write", register |-> register, data |-> buffer,
     length |-> Len(buffer), ok |-> ok]

ReadCall(register, length, rd) ==
    [kind |-> "read", register |-> register, data |-> rd.data,
     length |-> length, ok |-> rd.ok]

----------------------------------------------------------------------------
(* write_data, read_data, convert_to_byte_buffer, read_value *)

\* write_data(register, buffer=[]); wok: whether write_i2c_block_data returns.
\* With i2c_bus = None the attribute lookup raises, which the except turns
\* into False before any transport call.
write_data(bus, register, buffer, wok) ==
    IF register < 1 \/ register > 96 THEN Ret(PyBool(FALSE), <<>>)
    ELSE LET buf == IF buffer.t = "list" THEN buffer.v ELSE <<buffer.v>>
         IN  IF bus # "SMBus" THEN Ret(PyBool(FALSE), <<>>)
             ELSE Ret(PyBool(wok), <<WriteCall(register, buf, wok)>>)

\* read_data(register, length); rd: the outcome of read_i2c_block_data.
read_data(bus, register, length, rd) ==
    IF register < 1 \/ register > 96 THEN Ret(None, <<>>)
    ELSE IF length < 1 \/ length > MAX_BUFFER_LENGTH THEN Ret(None, <<>>)
    ELSE IF bus # "SMBus" THEN Ret(None, <<>>)
    ELSE Ret(IF rd.ok THEN PyList(rd.data) ELSE None,
             <<ReadCall(register, length, rd)>>)

\* convert_to_byte_buffer(value), value given as limbs <<hi, lo>>.
convert_to_byte_buffer(value) ==
    LET hi == value[1]
        lo == value[2]
    IN  IF hi < 0 \/ (hi = 0 /\ lo <= 255) THEN <<hi * 65536 + lo>>
        ELSE IF hi = 0 THEN
            LET msb == lo \div 256
                lsb == lo % 256
            IN  <<msb, lsb>>
        ELSE IF hi <= 65535 THEN
            LET msb == hi \div 256
                mid1 == hi % 256
                mid2 == lo \div 256
                lsb == lo % 256
            IN  <<msb, mid1, mid2, lsb>>
        ELSE <<>>

\* read_value(register): select write, then a one-byte read.
read_value(bus, register, wok, rd) ==
    LET w == write_data(bus, register, PyList(<<>>), wok)
    IN  IF ~Truthy(w.res) THEN Ret(None, w.calls)
        ELSE LET r == read_data(bus, register, 1, rd)
             IN  Ret(IF r.res.t = "list" THEN PyInt(r.res.v[1]) ELSE r.res,
                     w.calls \o r.calls)

\* loopback_read() comparing the echoed bytes without regard to their order.
loopback_read_unordered(bus, wok, rd) ==
    LET buff == <<145, 146, 147, 148>>
        w == write_data(bus, 1, PyList(buff), wok)
    IN  IF ~Truthy(w.res) THEN Ret(PyBool(FALSE), w.calls)
        ELSE LET r == read_data(bus, 1, Len(buff) + 1, rd)
             IN  IF r.res.t # "list" THEN Ret(PyBool(FALSE), w.calls \o r.calls)
                 ELSE LET returned_buff == SubSeq(r.res.v, 2, Len(r.res.v))
                      IN  Ret(PyBool({returned_buff[i] : i \in 1..Len(returned_buff)}
                                        = {buff[i] : i \in 1..Len(buff)}),
                              w.calls \o r.calls)

\* loopback_read(): the whole body is inside try/except, returning False.
LoopbackProbe == <<145, 146, 147, 148>>     \* [0x91, 0x92, 0x93, 0x94]

loopback_read(bus, wok, rd) ==
    LET buff == LoopbackProbe
        w == write_data(bus, 1, PyList(buff), wok)
    IN  IF ~Truthy(w.res) THEN Ret(PyBool(FALSE), w.calls)
        ELSE LET r == read_data(bus, 1, Len(buff) + 1, rd)
             IN  IF r.res.t # "list" THEN Ret(PyBool(FALSE), w.calls \o r.calls)
                 ELSE LET returned_buff == SubSeq(r.res.v, 2, Len(r.res.v))
                      IN  Ret(PyBool(returned_buff = buff), w.calls \o r.calls)

----------------------------------------------------------------------------
(* Decoding helpers *)

\* struct.unpack('h', bytes(buffer)): 2 bytes, little-endian, signed.
unpack_h(b) ==
    LET u == b[1] + 256 * b[2]
    IN  IF u >= 32768 THEN u - 65536 ELSE u

\* struct.unpack('i', bytes(buffer)): 4 bytes, little-endian, signed.
unpack_i(b) ==
    b[1] + 256 * b[2] + 65536 * b[3]
        + 16777216 * (IF b[4] >= 128 THEN b[4] - 256 ELSE b[4])

\* int(x / 1000): Python's int() truncates toward zero.
TruncMilli(x) == IF x >= 0 THEN x \div 1000 ELSE -((-x) \div 1000)

\* cur_mode == m, where cur_mode may be None.
IsInt(x, m) == x.t = "int" /\ x.v = m

----------------------------------------------------------------------------
(* Configuration and composite writes *)

set_run_sleep_mode(bus, value, wok) ==
    IF value = DRIVER_SLEEP THEN write_data(bus, 3, PyInt(value), wok)
    ELSE IF value = DRIVER_RUN THEN write_data(bus, 3, PyInt(value), wok)
    ELSE Ret(PyBool(FALSE), <<>>)

set_address(bus, cur, new, wok) ==
    IF cur = new THEN Ret(PyBool(TRUE), <<>>)
    ELSE IF cur < 1 \/ cur > 127 THEN Ret(PyBool(FALSE), <<>>)
    ELSE IF new < 1 \/ new > 127 THEN Ret(PyBool(FALSE), <<>>)
    ELSE write_data(bus, 4, PyList(<<cur, new>>), wok)

set_zero(bus, wok) == write_data(bus, 94, PyList(<<>>), wok)      \* 0x5e

stop(bus, wok) == write_data(bus, 95, PyList(<<>>), wok)          \* 0x5f

system_reset(bus, wok) == write_data(bus, 96, PyList(<<>>), wok)  \* 0x60

reset_faults(bus, wok) == write_data(bus, 53, PyList(<<>>), wok)  \* 0x35

write_settings_to_eeprom(bus, wok) ==
    write_data(bus, 63, PyList(<<>>), wok)                        \* 0x3f

\* set_driver_mode(value) giving up as soon as stop() or set_zero() fails.
set_driver_mode_checked(bus, value, w1, w2, w3) ==
    LET s == stop(bus, w1)
        z == set_zero(bus, w2)
    IN  IF ~Truthy(s.res) THEN Ret(PyBool(FALSE), s.calls)
        ELSE IF ~Truthy(z.res) THEN Ret(PyBool(FALSE), s.calls \o z.calls)
        ELSE IF value = MODE_AUTO \/ value = MODE_DEFAULT THEN
            LET w == write_data(bus, 5, PyInt(value), w3)
            IN  Ret(w.res, s.calls \o z.calls \o w.calls)
        ELSE Ret(PyBool(FALSE), s.calls \o z.calls)

\* set_driver_mode(value): stop(), set_zero(), then the mode write; w1, w2, w3
\* are the outcomes of the three transport writes.
set_driver_mode(bus, value, w1, w2, w3) ==
    LET s == stop(bus, w1)
        z == set_zero(bus, w2)
    IN  IF value = MODE_AUTO \/ value = MODE_DEFAULT THEN
            LET w == write_data(bus, 5, PyInt(value), w3)
            IN  Ret(w.res, s.calls \o z.calls \o w.calls)
        ELSE Ret(PyBool(FALSE), s.calls \o z.calls)

set_pwm_motors(bus, pwm, wok) == write_data(bus, 6, PyList(pwm), wok)

----------------------------------------------------------------------------
(* Reads *)

read_hw_fw_info(bus, wok, rd) ==
    LET w == write_data(bus, 10, PyList(<<>>), wok)
    IN  IF ~Truthy(w.res) THEN Ret(None, w.calls)
        ELSE LET r == read_data(bus, 10, 5, rd)
             IN  Ret(r.res, w.calls \o r.calls)

\* read_voltage / read_temperature: bytes(None) raises TypeError when the
\* read failed.  scale is the factor in thousandths (0.072 -> 72).
read_scaled_h(bus, register, scale, wok, rd) ==
    LET w == write_data(bus, register, PyList(<<>>), wok)
    IN  IF ~Truthy(w.res) THEN Ret(None, w.calls)
        ELSE LET r == read_data(bus, register, 2, rd)
             IN  IF r.res.t # "list"
                 THEN Ret(Raise("TypeError"), w.calls \o r.calls)
                 ELSE Ret(PyFloat(unpack_h(r.res.v) * scale, 0),
                          w.calls \o r.calls)

read_voltage(bus, wok, rd) == read_scaled_h(bus, 16, 72, wok, rd)

read_temperature(bus, wok, rd) == read_scaled_h(bus, 17, 125, wok, rd)

read_pin_statuses(bus, wok, rd) == read_value(bus, 18, wok, rd)

read_driver_status(bus, wok, rd) == read_value(bus, 19, wok, rd)

read_driver_mode(bus, wok, rd) == read_value(bus, 20, wok, rd)

\* read_current(register): buffer[0] on None raises TypeError.
\* 0.065 * buffer[0] / 2 ** buffer[1] is kept as (65 * buffer[0]) / 2^buffer[1]
\* thousandths.
read_current(bus, register, wok, rd) ==
    LET w == write_data(bus, register, PyList(<<>>), wok)
    IN  IF ~Truthy(w.res) THEN Ret(None, w.calls)
        ELSE LET r == read_data(bus, register, 2, rd)
             IN  IF r.res.t # "list"
                 THEN Ret(Raise("TypeError"), w.calls \o r.calls)
                 ELSE Ret(PyFloat(65 * r.res.v[1], r.res.v[2]),
                          w.calls \o r.calls)

read_current_full_scale(bus, wok, rd) == read_current(bus, 32, wok, rd)

read_current_idle(bus, wok, rd) == read_current(bus, 33, wok, rd)

read_current_overheat(bus, wok, rd) == read_current(bus, 34, wok, rd)

\* read_step_mode(): buffer & 0x0f on None raises TypeError.
read_step_mode(bus, wok, rd) ==
    LET b == read_value(bus, 35, wok, rd)
    IN  IF b.res.t # "int" THEN Ret(Raise("TypeError"), b.calls)
        ELSE Ret(PyInt(b.res.v % 16), b.calls)

read_temperature_limit(bus, wok, rd) == read_value(bus, 36, wok, rd)

read_faults(bus, wok, rd) == read_value(bus, 37, wok, rd)

read_position(bus, wok, rd) ==
    LET w == write_data(bus, 64, PyList(<<>>), wok)
    IN  IF ~Truthy(w.res) THEN Ret(None, w.calls)
        ELSE LET r == read_data(bus, 64, 4, rd)
             IN  IF r.res.t # "list"
                 THEN Ret(Raise("TypeError"), w.calls \o r.calls)
                 ELSE Ret(PyInt(unpack_i(r.res.v)), w.calls \o r.calls)

read_speed(bus, register, wok, rd) ==
    LET w == write_data(bus, register, PyList(<<>>), wok)
    IN  IF ~Truthy(w.res) THEN Ret(None, w.calls)
        ELSE LET r == read_data(bus, register, 2, rd)
             IN  IF r.res.t # "list"
                 THEN Ret(Raise("TypeError"), w.calls \o r.calls)
                 ELSE Ret(PyInt(unpack_h(r.res.v)), w.calls \o r.calls)

read_max_speed(bus, wok, rd) == read_speed(bus, 65, wok, rd)

read_acceleration(bus, wok, rd) == read_speed(bus, 66, wok, rd)

read_deceleration(bus, wok, rd) == read_speed(bus, 67, wok, rd)

read_current_speed(bus, wok, rd) == read_speed(bus, 68, wok, rd)

read_requested_speed(bus, wok, rd) == read_speed(bus, 69, wok, rd)

read_auto_run_invert_direction_status(bus, wok, rd) ==
    read_value(bus, 70, wok, rd)

----------------------------------------------------------------------------
(* Range-checked writes *)

\* The halving loop of set_current: while tq > 255: ai -= 1; tq = tq >> 1.
RECURSIVE current_loop(_, _)
current_loop(tq, ai) ==
    IF tq > 255 THEN current_loop(tq \div 2, ai - 1) ELSE <<tq, ai>>

\* set_current(register, value), value in mA: tq = int(123 * value).
set_current(bus, register, value, wok) ==
    LET tq == TruncMilli(123 * value)
        ai == 3
    IN  write_data(bus, register, PyList(current_loop(tq, ai)), wok)

set_current_full_scale(bus, value, wok) ==
    IF value < 0 \/ value > MAX_CURRENT_MILLI THEN Ret(PyBool(FALSE), <<>>)
    ELSE set_current(bus, 48, value, wok)

set_current_idle(bus, value, wok) ==
    IF value < 0 \/ value > MAX_CURRENT_MILLI THEN Ret(PyBool(FALSE), <<>>)
    ELSE set_current(bus, 49, value, wok)

set_current_overheat(bus, value, wok) ==
    IF value < 0 \/ value > MAX_CURRENT_MILLI THEN Ret(PyBool(FALSE), <<>>)
    ELSE set_current(bus, 50, value, wok)

set_step_mode(bus, value, wok) ==
    IF value < 0 \/ value > 8 THEN Ret(PyBool(FALSE), <<>>)
    ELSE write_data(bus, 51, PyInt(value), wok)

set_temperature_limit(bus, value, wok) ==
    IF value < 0 \/ value > MAX_TEMP THEN Ret(PyBool(FALSE), <<>>)
    ELSE write_data(bus, 52, PyInt(value), wok)

----------------------------------------------------------------------------
(* Position controller *)

\* while len(buffer) < 4: buffer.append(0)
RECURSIVE pad4(_)
pad4(buffer) == IF Len(buffer) < 4 THEN pad4(Append(buffer, 0)) ELSE buffer

\* set_position(value) rejecting only a mode it could read: a failed mode
\* query (None) passes the gate.
set_position_none_passes(bus, value, w1, rd, w2) ==
    LET m == read_driver_mode(bus, w1, rd)
        cur_mode == m.res
    IN  IF cur_mode.t = "int"
           /\ ~IsInt(cur_mode, MODE_POSITION_CONT)
           /\ ~IsInt(cur_mode, MODE_BINX_BUTTONS)
        THEN Ret(PyBool(FALSE), m.calls)
        ELSE LET buffer == pad4(Reverse(convert_to_byte_buffer(value)))
                 w == write_data(bus, 80, PyList(buffer), w2)
             IN  Ret(w.res, m.calls \o w.calls)

\* set_position(value) without buffer.reverse().
set_position_no_reverse(bus, value, w1, rd, w2) ==
    LET m == read_driver_mode(bus, w1, rd)
        cur_mode == m.res
    IN  IF ~IsInt(cur_mode, MODE_POSITION_CONT)
           /\ ~IsInt(cur_mode, MODE_BINX_BUTTONS)
        THEN Ret(PyBool(FALSE), m.calls)
        ELSE LET buffer == pad4(convert_to_byte_buffer(value))
                 w == write_data(bus, 80, PyList(buffer), w2)
             IN  Ret(w.res, m.calls \o w.calls)

\* set_position(value), value as limbs; w1, rd: the mode query; w2: the write.
set_position(bus, value, w1, rd, w2) ==
    LET m == read_driver_mode(bus, w1, rd)
        cur_mode == m.res
    IN  IF ~IsInt(cur_mode, MODE_POSITION_CONT)
           /\ ~IsInt(cur_mode, MODE_BINX_BUTTONS)
        THEN Ret(PyBool(FALSE), m.calls)
        ELSE LET buffer == pad4(Reverse(convert_to_byte_buffer(value)))
                 w == write_data(bus, 80, PyList(buffer), w2)
             IN  Ret(w.res, m.calls \o w.calls)

\* set_speed(register, value) without buff.append(0) for a one-byte buffer.
set_speed_unpadded(bus, register, value, wok) ==
    LET buff == convert_to_byte_buffer(value)
    IN  IF Len(buff) = 0 THEN Ret(PyBool(FALSE), <<>>)
        ELSE LET new_buff == IF Len(buff) = 1 THEN buff
                             ELSE <<buff[2], buff[1]>>
             IN  write_data(bus, register, PyList(new_buff), wok)

\* set_speed(register, value), value as limbs.
set_speed(bus, register, value, wok) ==
    LET buff == convert_to_byte_buffer(value)
    IN  IF Len(buff) = 0 THEN Ret(PyBool(FALSE), <<>>)
        ELSE LET new_buff == IF Len(buff) = 1 THEN Append(buff, 0)
                             ELSE <<buff[2], buff[1]>>
             IN  write_data(bus, register, PyList(new_buff), wok)

set_max_speed(bus, value, wok) ==
    IF value < 0 \/ value > MAX_SPEED THEN Ret(PyBool(FALSE), <<>>)
    ELSE set_speed(bus, 81, Big(value), wok)

\* set_acceleration(value) checked against MAX_SPEED, as set_max_speed is.
set_acceleration_speed_limit(bus, value, wok) ==
    IF value < 0 \/ value > MAX_SPEED THEN Ret(PyBool(FALSE), <<>>)
    ELSE set_speed(bus, 82, Big(value), wok)

set_acceleration(bus, value, wok) ==
    IF value < 0 \/ value > MAX_ACCELERATION THEN Ret(PyBool(FALSE), <<>>)
    ELSE set_speed(bus, 82, Big(value), wok)

set_deceleration(bus, value, wok) ==
    IF value < 0 \/ value > MAX_ACCELERATION THEN Ret(PyBool(FALSE), <<>>)
    ELSE set_speed(bus, 83, Big(value), wok)

\* set_requested_speed(value) without the mode check.
set_requested_speed_ungated(bus, value, w1, rd, w2) ==
    IF value < 0 \/ value > MAX_SPEED THEN Ret(PyBool(FALSE), <<>>)
    ELSE set_speed(bus, 84, Big(value), w2)

set_requested_speed(bus, value, w1, rd, w2) ==
    LET m == read_driver_mode(bus, w1, rd)
        cur_mode == m.res
    IN  IF ~IsInt(cur_mode, MODE_AUTO) THEN Ret(PyBool(FALSE), m.calls)
        ELSE IF value < 0 \/ value > MAX_SPEED
        THEN Ret(PyBool(FALSE), m.calls)
        ELSE LET w == set_speed(bus, 84, Big(value), w2)
             IN  Ret(w.res, m.calls \o w.calls)

set_invert_direction(bus, value, w1, rd, w2) ==
    LET m == read_driver_mode(bus, w1, rd)
        cur_mode == m.res
    IN  IF ~IsInt(cur_mode, MODE_AUTO) THEN Ret(PyBool(FALSE), m.calls)
        ELSE IF value < 0 \/ value > 1 THEN Ret(PyBool(FALSE), m.calls)
        ELSE LET buff == convert_to_byte_buffer(Big(value))
             IN  IF Len(buff) = 0 THEN Ret(PyBool(FALSE), m.calls)
                 ELSE LET w == write_data(bus, 85, PyList(buff), w2)
                      IN  Ret(w.res, m.calls \o w.calls)

----------------------------------------------------------------------------
(* Construction *)

\* __init__(address): opened is whether smbus.SMBus(I2C_CHANNEL) returns.
\* Everything is inside the try; both handlers only log and set i2c_bus to
\* None, so nothing escapes.
init(opened, wok, rd) ==
    IF ~opened THEN [bus |-> "None", calls |-> <<>>]
    ELSE LET l == loopback_read("SMBus", wok, rd)
         IN  [bus |-> IF Truthy(l.res) THEN "SMBus" ELSE "None",
              calls |-> l.calls]

----------------------------------------------------------------------------
(* Inputs *)

Near(n) == (n - Margin)..(n + Margin)

DeviceModes ==
    {MODE_DEFAULT, 2, MODE_POSITION_CONT, MODE_BINX_BUTTONS, MODE_AUTO}

ReplyBytes == {145, 146, 147, 148} \cup (0..(NoiseBytes - 1))

\* Outcomes of a read of `length` bytes from a register other than 0x14.
ReadOutcomes(length) ==
    {ReadFail} \cup {ReadOk(s) : s \in [1..length -> ReplyBytes]}

\* Outcomes of the one-byte read of register 0x14 while the device is in
\* `mode`.
ModeReadOutcomes(mode) == {ReadFail, ReadOk(<<mode>>)}

SpeedArgs ==
    Near(0) \cup Near(255) \cup Near(256) \cup {4660, 15360}
        \cup Near(MAX_ACCELERATION) \cup Near(MAX_SPEED) \cup Near(65535)

CurrentArgs ==
    Near(0) \cup Near(MAX_CURRENT_MILLI) \cup {25 * k : k \in 0..240}

TemperatureArgs == (0 - Margin)..(MAX_TEMP + Margin)

StepModeArgs == (0 - Margin)..(8 + Margin)

InvertArgs == (0 - Margin)..(1 + Margin)

DriverModeArgs == (MODE_DEFAULT - Margin)..(MODE_AUTO + Margin)

RunSleepArgs == Near(DRIVER_SLEEP) \cup Near(DRIVER_RUN)

AddressArgs == Near(1) \cup Near(127)

PwmArgs == [1..6 -> {0, 255}]

\* Positions as limbs <<hi, lo>>: 0 .. beyond 2^32 - 1.
PositionArgs ==
    ({0, 1, 258} \cup Near(65535)) \X ({0, 772, 65535} \cup Near(255))

----------------------------------------------------------------------------
(* Actions: one per public method *)

Init ==
    /\ i2c_bus = "unbound"
    /\ devMode \in DeviceModes
    /\ op = "idle"
    /\ args = <<>>
    /\ calls = <<>>
    /\ result = None

Construct ==
    /\ i2c_bus = "unbound"
    /\ op = "idle"
    /\ \E opened \in BOOLEAN, wok \in BOOLEAN, rd \in ReadOutcomes(5) :
        LET r == init(opened, wok, rd)
        IN  /\ i2c_bus' = r.bus
            /\ calls' = r.calls
    /\ op' = "__init__"
    /\ args' = <<>>
    /\ result' = None
    /\ UNCHANGED devMode

\* A call of method `name` with arguments `a`, made (CanCall) on a constructed
\* object when the previous call has returned; r is what the method did.  op, args, calls and result
\* describe the call until the caller moves on (Return).
CanCall == i2c_bus \in {"SMBus", "None"} /\ op = "idle"

Call(name, a, r) ==
    /\ op' = name
    /\ args' = a
    /\ calls' = r.calls
    /\ result' = r.res
    /\ UNCHANGED <<i2c_bus, devMode>>

\* The caller has taken the result; the next call may start.
Return ==
    /\ op # "idle"
    /\ op' = "idle"
    /\ args' = <<>>
    /\ calls' = <<>>
    /\ result' = None
    /\ UNCHANGED <<i2c_bus, devMode>>

\* Between two calls the device may be put into another mode (over USB, or
\* by its own controller).
DeviceChangesMode ==
    /\ op = "idle"
    /\ \E mode \in DeviceModes \ {devMode} : devMode' = mode
    /\ UNCHANGED <<i2c_bus, op, args, calls, result>>

LoopbackRead ==
    /\ CanCall
    /\ \E wok \in BOOLEAN, rd \in ReadOutcomes(5) :
        Call("loopback_read", <<>>,
             loopback_read(i2c_bus, wok, rd))

SetRunSleepMode ==
    /\ CanCall
    /\ \E value \in RunSleepArgs, wok \in BOOLEAN :
        Call("set_run_sleep_mode", <<value>>,
             set_run_sleep_mode(i2c_bus, value, wok))

SetAddress ==
    /\ CanCall
    /\ \E cur \in AddressArgs, new \in AddressArgs, wok \in BOOLEAN :
        Call("set_address", <<cur, new>>,
             set_address(i2c_bus, cur, new, wok))

SetDriverMode ==
    /\ CanCall
    /\ \E value \in DriverModeArgs, w1 \in BOOLEAN, w2 \in BOOLEAN, w3 \in BOOLEAN :
        Call("set_driver_mode", <<value>>,
             set_driver_mode(i2c_bus, value, w1, w2, w3))

SetPwmMotors ==
    /\ CanCall
    /\ \E pwm \in PwmArgs, wok \in BOOLEAN :
        Call("set_pwm_motors", pwm,
             set_pwm_motors(i2c_bus, pwm, wok))

ReadHwFwInfo ==
    /\ CanCall
    /\ \E wok \in BOOLEAN, rd \in ReadOutcomes(5) :
        Call("read_hw_fw_info", <<>>,
             read_hw_fw_info(i2c_bus, wok, rd))

ReadVoltage ==
    /\ CanCall
    /\ \E wok \in BOOLEAN, rd \in ReadOutcomes(2) :
        Call("read_voltage", <<>>,
             read_voltage(i2c_bus, wok, rd))

ReadTemperature ==
    /\ CanCall
    /\ \E wok \in BOOLEAN, rd \in ReadOutcomes(2) :
        Call("read_temperature", <<>>,
             read_temperature(i2c_bus, wok, rd))

ReadPinStatuses ==
    /\ CanCall
    /\ \E wok \in BOOLEAN, rd \in ReadOutcomes(1) :
        Call("read_pin_statuses", <<>>,
             read_pin_statuses(i2c_bus, wok, rd))

ReadDriverStatus ==
    /\ CanCall
    /\ \E wok \in BOOLEAN, rd \in ReadOutcomes(1) :
        Call("read_driver_status", <<>>,
             read_driver_status(i2c_bus, wok, rd))

ReadDriverMode ==
    /\ CanCall
    /\ \E wok \in BOOLEAN, rd \in ModeReadOutcomes(devMode) :
        Call("read_driver_mode", <<>>,
             read_driver_mode(i2c_bus, wok, rd))

ReadCurrentFullScale ==
    /\ CanCall
    /\ \E wok \in BOOLEAN, rd \in ReadOutcomes(2) :
        Call("read_current_full_scale", <<>>,
             read_current_full_scale(i2c_bus, wok, rd))

ReadCurrentIdle ==
    /\ CanCall
    /\ \E wok \in BOOLEAN, rd \in ReadOutcomes(2) :
        Call("read_current_idle", <<>>,
             read_current_idle(i2c_bus, wok, rd))

ReadCurrentOverheat ==
    /\ CanCall
    /\ \E wok \in BOOLEAN, rd \in ReadOutcomes(2) :
        Call("read_current_overheat", <<>>,
             read_current_overheat(i2c_bus, wok, rd))

ReadStepMode ==
    /\ CanCall
    /\ \E wok \in BOOLEAN, rd \in ReadOutcomes(1) :
        Call("read_step_mode", <<>>,
             read_step_mode(i2c_bus, wok, rd))

ReadTemperatureLimit ==
    /\ CanCall
    /\ \E wok \in BOOLEAN, rd \in ReadOutcomes(1) :
        Call("read_temperature_limit", <<>>,
             read_temperature_limit(i2c_bus, wok, rd))

ReadFaults ==
    /\ CanCall
    /\ \E wok \in BOOLEAN, rd \in ReadOutcomes(1) :
        Call("read_faults", <<>>,
             read_faults(i2c_bus, wok, rd))

SetCurrentFullScale ==
    /\ CanCall
    /\ \E value \in CurrentArgs, wok \in BOOLEAN :
        Call("set_current_full_scale", <<value>>,
             set_current_full_scale(i2c_bus, value, wok))

SetCurrentIdle ==
    /\ CanCall
    /\ \E value \in CurrentArgs, wok \in BOOLEAN :
        Call("set_current_idle", <<value>>,
             set_current_idle(i2c_bus, value, wok))

SetCurrentOverheat ==
    /\ CanCall
    /\ \E value \in CurrentArgs, wok \in BOOLEAN :
        Call("set_current_overheat", <<value>>,
             set_current_overheat(i2c_bus, value, wok))

SetStepMode ==
    /\ CanCall
    /\ \E value \in StepModeArgs, wok \in BOOLEAN :
        Call("set_step_mode", <<value>>,
             set_step_mode(i2c_bus, value, wok))

SetTemperatureLimit ==
    /\ CanCall
    /\ \E value \in TemperatureArgs, wok \in BOOLEAN :
        Call("set_temperature_limit", <<value>>,
             set_temperature_limit(i2c_bus, value, wok))

ResetFaults ==
    /\ CanCall
    /\ \E wok \in BOOLEAN :
        Call("reset_faults", <<>>,
             reset_faults(i2c_bus, wok))

WriteSettingsToEeprom ==
    /\ CanCall
    /\ \E wok \in BOOLEAN :
        Call("write_settings_to_eeprom", <<>>,
             write_settings_to_eeprom(i2c_bus, wok))

ReadPosition ==
    /\ CanCall
    /\ \E wok \in BOOLEAN, rd \in ReadOutcomes(4) :
        Call("read_position", <<>>,
             read_position(i2c_bus, wok, rd))

ReadMaxSpeed ==
    /\ CanCall
    /\ \E wok \in BOOLEAN, rd \in ReadOutcomes(2) :
        Call("read_max_speed", <<>>,
             read_max_speed(i2c_bus, wok, rd))

ReadAcceleration ==
    /\ CanCall
    /\ \E wok \in BOOLEAN, rd \in ReadOutcomes(2) :
        Call("read_acceleration", <<>>,
             read_acceleration(i2c_bus, wok, rd))

ReadDeceleration ==
    /\ CanCall
    /\ \E wok \in BOOLEAN, rd \in ReadOutcomes(2) :
        Call("read_deceleration", <<>>,
             read_deceleration(i2c_bus, wok, rd))

ReadCurrentSpeed ==
    /\ CanCall
    /\ \E wok \in BOOLEAN, rd \in ReadOutcomes(2) :
        Call("read_current_speed", <<>>,
             read_current_speed(i2c_bus, wok, rd))

ReadRequestedSpeed ==
    /\ CanCall
    /\ \E wok \in BOOLEAN, rd \in ReadOutcomes(2) :
        Call("read_requested_speed", <<>>,
             read_requested_speed(i2c_bus, wok, rd))

ReadAutoRunInvertDirectionStatus ==
    /\ CanCall
    /\ \E wok \in BOOLEAN, rd \in ReadOutcomes(1) :
        Call("read_auto_run_invert_direction_status", <<>>,
             read_auto_run_invert_direction_status(i2c_bus, wok, rd))

SetPosition ==
    /\ CanCall
    /\ \E value \in PositionArgs, w1 \in BOOLEAN, rd \in ModeReadOutcomes(devMode), w2 \in BOOLEAN :
        Call("set_position", <<value>>,
             set_position(i2c_bus, value, w1, rd, w2))

\* set_speed(register, value) called directly with one of the ungated speed
\* registers (0x51 .. 0x53) and a value of any magnitude, given as limbs.
SetSpeed ==
    /\ CanCall
    /\ \E register \in {81, 82, 83}, value \in PositionArgs, wok \in BOOLEAN :
        Call("set_speed", <<register, value>>,
             set_speed(i2c_bus, register, value, wok))

SetMaxSpeed ==
    /\ CanCall
    /\ \E value \in SpeedArgs, wok \in BOOLEAN :
        Call("set_max_speed", <<value>>,
             set_max_speed(i2c_bus, value, wok))

SetAcceleration ==
    /\ CanCall
    /\ \E value \in SpeedArgs, wok \in BOOLEAN :
        Call("set_acceleration", <<value>>,
             set_acceleration(i2c_bus, value, wok))

SetDeceleration ==
    /\ CanCall
    /\ \E value \in SpeedArgs, wok \in BOOLEAN :
        Call("set_deceleration", <<value>>,
             set_deceleration(i2c_bus, value, wok))

SetRequestedSpeed ==
    /\ CanCall
    /\ \E value \in SpeedArgs, w1 \in BOOLEAN, rd \in ModeReadOutcomes(devMode), w2 \in BOOLEAN :
        Call("set_requested_speed", <<value>>,
             set_requested_speed(i2c_bus, value, w1, rd, w2))

SetInvertDirection ==
    /\ CanCall
    /\ \E value \in InvertArgs, w1 \in BOOLEAN, rd \in ModeReadOutcomes(devMode), w2 \in BOOLEAN :
        Call("set_invert_direction", <<value>>,
             set_invert_direction(i2c_bus, value, w1, rd, w2))

SetZero ==
    /\ CanCall
    /\ \E wok \in BOOLEAN :
        Call("set_zero", <<>>,
             set_zero(i2c_bus, wok))

Stop ==
    /\ CanCall
    /\ \E wok \in BOOLEAN :
        Call("stop", <<>>,
             stop(i2c_bus, wok))

SystemReset ==
    /\ CanCall
    /\ \E wok \in BOOLEAN :
        Call("system_reset", <<>>,
             system_reset(i2c_bus, wok))

Next ==
    \/ Construct
    \/ Return
    \/ DeviceChangesMode
    \/ LoopbackRead
    \/ SetRunSleepMode
    \/ SetAddress
    \/ SetDriverMode
    \/ SetPwmMotors
    \/ ReadHwFwInfo
    \/ ReadVoltage
    \/ ReadTemperature
    \/ ReadPinStatuses
    \/ ReadDriverStatus
    \/ ReadDriverMode
    \/ ReadCurrentFullScale
    \/ ReadCurrentIdle
    \/ ReadCurrentOverheat
    \/ ReadStepMode
    \/ ReadTemperatureLimit
    \/ ReadFaults
    \/ SetCurrentFullScale
    \/ SetCurrentIdle
    \/ SetCurrentOverheat
    \/ SetStepMode
    \/ SetTemperatureLimit
    \/ ResetFaults
    \/ WriteSettingsToEeprom
    \/ ReadPosition
    \/ ReadMaxSpeed
    \/ ReadAcceleration
    \/ ReadDeceleration
    \/ ReadCurrentSpeed
    \/ ReadRequestedSpeed
    \/ ReadAutoRunInvertDirectionStatus
    \/ SetPosition
    \/ SetSpeed
    \/ SetMaxSpeed
    \/ SetAcceleration
    \/ SetDeceleration
    \/ SetRequestedSpeed
    \/ SetInvertDirection
    \/ SetZero
    \/ Stop
    \/ SystemReset

Spec == Init /\ [][Next]_vars

----------------------------------------------------------------------------
(* Vocabulary of the properties *)

False == PyBool(FALSE)
True == PyBool(TRUE)

Functional == i2c_bus = "SMBus"

IsWrite(c) == c.kind = "write"
IsRead(c) == c.kind = "read"

\* A write with a payload to `register`.
IsPayloadWrite(c, register) ==
    IsWrite(c) /\ c.register = register /\ Len(c.data) > 0

\* The payload-less write that selects `register` for a following read.
IsSelectWrite(c, register) ==
    IsWrite(c) /\ c.register = register /\ c.data = <<>>

NumWrites == Cardinality({i \in 1..Len(calls) : IsWrite(calls[i])})
NumReads == Cardinality({i \in 1..Len(calls) : IsRead(calls[i])})

\* The call made its own mode query (select 0x14, read one byte of 0x14)
\* and the query returned mode m.
OwnQueryReturned(m) ==
    /\ Len(calls) >= 2
    /\ IsSelectWrite(calls[1], 20) /\ calls[1].ok
    /\ IsRead(calls[2]) /\ calls[2].register = 20 /\ calls[2].ok
    /\ calls[2].data = <<m>>
    /\ devMode = m

\* The call's mode query failed: no handle, select write failed, or the
\* read failed.
OwnQueryFailed ==
    \/ Len(calls) = 0
    \/ Len(calls) = 1 /\ IsSelectWrite(calls[1], 20) /\ ~calls[1].ok
    \/ Len(calls) = 2 /\ IsSelectWrite(calls[1], 20) /\ calls[1].ok
         /\ IsRead(calls[2]) /\ calls[2].register = 20 /\ ~calls[2].ok

----------------------------------------------------------------------------
(* C1 *)

\* C1: on a session that holds a transport handle, set_driver_mode(MODE_AUTO)
\* makes exactly three transport calls, all writes, in the order 0x5F (empty
\* payload), 0x5E (empty payload), 0x05 with payload [0x06], whatever the
\* outcomes of the first two, and returns the outcome of the third.
C1_SetDriverModeAutoThreeWrites ==
    (op = "set_driver_mode" /\ args = <<MODE_AUTO>> /\ Functional) =>
        /\ Len(calls) = 3
        /\ IsWrite(calls[1]) /\ calls[1].register = 95 /\ calls[1].data = <<>>
        /\ IsWrite(calls[2]) /\ calls[2].register = 94 /\ calls[2].data = <<>>
        /\ IsWrite(calls[3]) /\ calls[3].register = 5 /\ calls[3].data = <<6>>
        /\ result = PyBool(calls[3].ok)

\* stop() and set_zero() both failed, the mode write was still made and its
\* success is the result.
C1_Witness ==
    /\ op = "set_driver_mode" /\ args = <<MODE_AUTO>> /\ Functional
    /\ Len(calls) = 3
    /\ ~calls[1].ok /\ ~calls[2].ok /\ calls[3].ok
    /\ result = True

----------------------------------------------------------------------------
(* C2 *)

\* C2: a payload write to 0x50 is issued only inside a set_position call
\* whose own mode query returned PositionContinuous (4) or ButtonControl (5),
\* a payload write to 0x54 / 0x55 only inside a set_requested_speed /
\* set_invert_direction call whose own mode query returned Auto (6); the
\* query is made in every such call and reports the device's mode at that
\* call; when it returns another mode or fails the call returns False and
\* the target register is not written.
C2_ModeGatingPerCall ==
    /\ \A i \in 1..Len(calls) :
        /\ IsPayloadWrite(calls[i], 80) =>
              /\ op = "set_position" /\ i = 3
              /\ OwnQueryReturned(MODE_POSITION_CONT)
                    \/ OwnQueryReturned(MODE_BINX_BUTTONS)
        /\ IsPayloadWrite(calls[i], 84) =>
              op = "set_requested_speed" /\ i = 3 /\ OwnQueryReturned(MODE_AUTO)
        /\ IsPayloadWrite(calls[i], 85) =>
              op = "set_invert_direction" /\ i = 3 /\ OwnQueryReturned(MODE_AUTO)
    /\ op \in {"set_position", "set_requested_speed", "set_invert_direction"} =>
        /\ OwnQueryFailed \/ OwnQueryReturned(devMode)
        /\ (\/ OwnQueryFailed
            \/ op = "set_position"
                 /\ devMode \notin {MODE_POSITION_CONT, MODE_BINX_BUTTONS}
            \/ op # "set_position" /\ devMode # MODE_AUTO) =>
              /\ result = False
              /\ \A i \in 1..Len(calls) :
                    ~(IsWrite(calls[i]) /\ calls[i].register \in {80, 84, 85})

\* The device is in ButtonControl at this call; the call queried the mode
\* itself and then wrote the position.
C2_Witness ==
    /\ op = "set_position" /\ OwnQueryReturned(MODE_BINX_BUTTONS)
    /\ Len(calls) = 3 /\ IsPayloadWrite(calls[3], 80) /\ calls[3].ok
    /\ result = True

----------------------------------------------------------------------------
(* C3 *)

\* C3 as stated: set_requested_speed(v) called while the device's mode is
\* not Auto returns False and no transport write call at all is issued.
C3_NoWriteAtAll ==
    (op = "set_requested_speed" /\ devMode # MODE_AUTO) =>
        result = False /\ NumWrites = 0

\* C3, amended: set_requested_speed(v) called while the device's mode is not
\* Auto returns False and never writes register 0x54; the only transport
\* write of the call is the mode query's payload-less select write of
\* register 0x14, issued exactly once on a session that holds a handle.
C3_OnlyTheSelectWrite ==
    (op = "set_requested_speed" /\ devMode # MODE_AUTO) =>
        /\ result = False
        /\ \A i \in 1..Len(calls) :
              IsWrite(calls[i]) => i = 1 /\ IsSelectWrite(calls[i], 20)
        /\ Functional => NumWrites = 1
        /\ ~Functional => calls = <<>>

\* An in-range speed is refused in PositionContinuous mode after the mode
\* query went through.
C3_Witness ==
    /\ op = "set_requested_speed" /\ devMode = MODE_POSITION_CONT
    /\ args = <<15360>>
    /\ Len(calls) = 2 /\ calls[1].ok /\ calls[2].ok
    /\ result = False

----------------------------------------------------------------------------
(* C4 *)

\* C4 as stated: construction does not raise and leaves the session without
\* a handle when the self-test fails, and on a session without a handle
\* every public method makes no transport call and returns False or None.
C4_NonFunctionalFailsFast ==
    /\ op = "__init__" =>
          /\ result = None
          /\ NumWrites <= 1 /\ NumReads <= 1
          /\ Functional <=>
                /\ Len(calls) = 2 /\ calls[1].ok /\ calls[2].ok
                /\ SubSeq(calls[2].data, 2, 5) = <<145, 146, 147, 148>>
    /\ (i2c_bus = "None" /\ op \notin {"idle", "__init__"}) =>
          /\ calls = <<>>
          /\ result = False \/ result = None

----------------------------------------------------------------------------
(* C5 *)

WriteOnlyOps ==
    {"set_current_full_scale", "set_current_idle", "set_current_overheat",
     "set_max_speed", "set_acceleration", "set_deceleration",
     "set_step_mode", "set_temperature_limit"}

\* The documented domain of each write-only operation (currents in mA).
DocumentedMax(name) ==
    CASE name \in {"set_current_full_scale", "set_current_idle",
                   "set_current_overheat"} -> 6000
      [] name = "set_max_speed" -> 60000
      [] name \in {"set_acceleration", "set_deceleration"} -> 50000
      [] name = "set_step_mode" -> 8
      [] name = "set_temperature_limit" -> 120

\* C5: a write-only operation given an input outside its documented domain
\* returns False with zero transport calls; given an input inside it, on a
\* session that holds a handle, it makes exactly one transport call, a
\* write, and no read.
C5_RangeRejection ==
    op \in WriteOnlyOps =>
        LET v == args[1]
            inDomain == 0 <= v /\ v <= DocumentedMax(op)
        IN  /\ ~inDomain => result = False /\ calls = <<>>
            /\ (inDomain /\ Functional) =>
                  Len(calls) = 1 /\ IsWrite(calls[1]) /\ NumReads = 0
                  /\ result = PyBool(calls[1].ok)

\* set_acceleration(50001) on a working session: refused, nothing sent.
C5_Witness ==
    /\ op = "set_acceleration" /\ args = <<50001>> /\ Functional
    /\ result = False /\ calls = <<>>

----------------------------------------------------------------------------
(* C6 *)

\* C6 as stated: set_requested_speed with a speed outside [0, 60000],
\* set_invert_direction with a flag outside {0, 1} and set_driver_mode with
\* a mode other than Default or Auto return False without any transport
\* call.
C6_InvalidArgumentBeforeTransport ==
    (\/ op = "set_requested_speed" /\ (args[1] < 0 \/ args[1] > 60000)
     \/ op = "set_invert_direction" /\ args[1] \notin {0, 1}
     \/ op = "set_driver_mode" /\ args[1] \notin {MODE_DEFAULT, MODE_AUTO}) =>
        result = False /\ calls = <<>>

----------------------------------------------------------------------------
(* C7 *)

ReadOps ==
    {"read_hw_fw_info", "read_voltage", "read_temperature",
     "read_pin_statuses", "read_driver_status", "read_driver_mode",
     "read_current_full_scale", "read_current_idle", "read_current_overheat",
     "read_step_mode", "read_temperature_limit", "read_faults",
     "read_position", "read_max_speed", "read_acceleration",
     "read_deceleration", "read_current_speed", "read_requested_speed",
     "read_auto_run_invert_direction_status"}

\* C7 as stated: a read operation whose register-select write fails, or
\* whose select write succeeds and whose transport read fails, returns None
\* and does not raise.
C7_ReadFailureIsNone ==
    (/\ op \in ReadOps
     /\ \/ Len(calls) = 1 /\ ~calls[1].ok
        \/ Len(calls) = 2 /\ calls[1].ok /\ ~calls[2].ok) =>
        result = None

----------------------------------------------------------------------------
(* C8 *)

\* C8: loopback_read() returns a bool, never raises; it returns True exactly
\* when the write of [0x91, 0x92, 0x93, 0x94] to register 0x01 succeeded and
\* the following 5-byte read of register 0x01 returned [b, 0x91, 0x92, 0x93,
\* 0x94] for some byte b; when the write fails no read is issued.
C8_LoopbackIff ==
    op = "loopback_read" =>
        /\ result.t = "bool"
        /\ result.v <=>
              /\ Len(calls) = 2
              /\ IsWrite(calls[1]) /\ calls[1].register = 1
              /\ calls[1].data = <<145, 146, 147, 148>> /\ calls[1].ok
              /\ IsRead(calls[2]) /\ calls[2].register = 1
              /\ calls[2].length = 5 /\ calls[2].ok
              /\ Len(calls[2].data) = 5
              /\ calls[2].data[2] = 145 /\ calls[2].data[3] = 146
              /\ calls[2].data[4] = 147 /\ calls[2].data[5] = 148
        /\ (Len(calls) >= 1 /\ ~calls[1].ok) => NumReads = 0
        /\ Functional =>
              /\ Len(calls) >= 1
              /\ IsWrite(calls[1]) /\ calls[1].register = 1
              /\ calls[1].data = <<145, 146, 147, 148>>
              /\ calls[1].ok => Len(calls) = 2 /\ IsRead(calls[2])

\* The echo came back behind an address byte that is not part of the probe.
C8_Witness ==
    /\ op = "loopback_read" /\ result = True
    /\ Len(calls) = 2 /\ calls[2].data = <<0, 145, 146, 147, 148>>

----------------------------------------------------------------------------
(* C9 *)

SpeedOps ==
    {"set_max_speed", "set_acceleration", "set_deceleration",
     "set_requested_speed"}

SpeedRegister(name) ==
    CASE name = "set_max_speed" -> 81
      [] name = "set_acceleration" -> 82
      [] name = "set_deceleration" -> 83
      [] name = "set_requested_speed" -> 84

SpeedInDomain ==
    0 <= args[1] /\ args[1] <= DocumentedMax(
        IF op = "set_requested_speed" THEN "set_max_speed" ELSE op)

\* The write a speed-class call made to its own register, if it made one.
SpeedWrites ==
    {i \in 1..Len(calls) :
        IsWrite(calls[i]) /\ calls[i].register = SpeedRegister(op)}

\* C9 as stated: a speed-class write of an in-domain v sends [v & 0xFF,
\* v >> 8] when 256 <= v and the single byte [v] when v <= 255.
C9_OneByteUnchanged ==
    (op \in SpeedOps /\ SpeedInDomain) =>
        \A i \in SpeedWrites :
            LET v == args[1]
            IN  calls[i].data =
                    IF v >= 256 THEN <<v % 256, v \div 256>> ELSE <<v>>

\* C9, amended: a speed-class write of an in-domain v always sends two
\* bytes, least-significant first: [v & 0xFF, v >> 8], which for v <= 255 is
\* [v, 0]; the write is made whenever the session holds a handle (and, for
\* set_requested_speed, the device is in Auto mode).
C9_AlwaysTwoBytesLsbFirst ==
    (op \in SpeedOps /\ SpeedInDomain) =>
        /\ \A i \in SpeedWrites :
              LET v == args[1]
              IN  /\ calls[i].data = <<v % 256, v \div 256>>
                  /\ Len(calls[i].data) = 2
                  /\ v <= 255 => calls[i].data = <<v, 0>>
        /\ (Functional /\ op # "set_requested_speed") =>
              Cardinality(SpeedWrites) = 1
        /\ (op = "set_requested_speed" /\ OwnQueryReturned(MODE_AUTO)) =>
              Cardinality(SpeedWrites) = 1

\* set_max_speed(255): the one-byte value goes out as [255, 0].
C9_Witness ==
    /\ op = "set_max_speed" /\ args = <<255>>
    /\ Len(calls) = 1 /\ calls[1].register = 81
    /\ calls[1].data = <<255, 0>>

----------------------------------------------------------------------------
(* C10 *)

\* C10: set_position(v) with 0 <= v <= 2^32 - 1, in a permitted mode, writes
\* to register 0x50 exactly the four bytes [v & 0xFF, (v >> 8) & 0xFF,
\* (v >> 16) & 0xFF, (v >> 24) & 0xFF], whatever the magnitude of v.
C10_PositionLittleEndian ==
    (/\ op = "set_position"
     /\ 0 <= args[1][1] /\ args[1][1] <= 65535
     /\ OwnQueryReturned(MODE_POSITION_CONT)
           \/ OwnQueryReturned(MODE_BINX_BUTTONS)) =>
        LET hi == args[1][1]
            lo == args[1][2]
        IN  /\ Len(calls) = 3
            /\ IsWrite(calls[3]) /\ calls[3].register = 80
            /\ Len(calls[3].data) = 4
            /\ calls[3].data =
                  <<lo % 256, lo \div 256, hi % 256, hi \div 256>>

\* v = 0x0304, whose minimal encoding has two bytes, goes out as
\* [0x04, 0x03, 0, 0].
C10_Witness ==
    /\ op = "set_position" /\ args = <<(<<0, 772>>)>>
    /\ Len(calls) = 3 /\ calls[3].register = 80
    /\ calls[3].data = <<4, 3, 0, 0>>

----------------------------------------------------------------------------
(* C11 *)

\* The value of the call exceeds 2^32 - 1 (limbs <<hi, lo>> with hi > 65535).
BeyondUint32(value) == value[1] > 65535

\* C11 as stated: convert_to_byte_buffer(v) is empty for every v > 2^32 - 1,
\* and set_position(v) and set_speed(register, v) with such a v return
\* False and make no payload write to their target register;
\* set_invert_direction does the same for every value above 1, which is
\* where its own range check puts all such values.
C11_EmptyEncodingIsFailure ==
    /\ (op = "set_position" /\ BeyondUint32(args[1])) =>
          /\ convert_to_byte_buffer(args[1]) = <<>>
          /\ result = False
          /\ \A i \in 1..Len(calls) : ~IsPayloadWrite(calls[i], 80)
    /\ (op = "set_speed" /\ BeyondUint32(args[2])) =>
          /\ convert_to_byte_buffer(args[2]) = <<>>
          /\ result = False
          /\ \A i \in 1..Len(calls) : ~IsPayloadWrite(calls[i], args[1])
    /\ (op = "set_invert_direction" /\ args[1] > 1) =>
          /\ result = False
          /\ \A i \in 1..Len(calls) : ~IsPayloadWrite(calls[i], 85)

----------------------------------------------------------------------------
(* C12 *)

CurrentOps ==
    {"set_current_full_scale", "set_current_idle", "set_current_overheat"}

TwoTo(e) == CASE e = 0 -> 1 [] e = 1 -> 2 [] e = 2 -> 4 [] e = 3 -> 8

\* The payload [mantissa, exponent] of a current write is well formed for
\* the current a = k mA: a byte and an exponent in 0..3, the exponent the
\* largest for which the mantissa int(123 * a) >> (3 - exponent) fits in a
\* byte.
CurrentPayloadWellFormed(k, data) ==
    /\ Len(data) = 2
    /\ data[1] \in 0..255
    /\ data[2] \in 0..3
    /\ data[1] = ((123 * k) \div 1000) \div TwoTo(3 - data[2])
    /\ \A e \in 0..3 :
          e > data[2] => ((123 * k) \div 1000) \div TwoTo(3 - e) > 255

\* |a - 0.065 * mantissa / 2^exponent| <= 0.065 / 2^exponent for a = k mA,
\* multiplied through by 1000 * 2^exponent.
WithinOneStep(k, data) ==
    LET d == k * TwoTo(data[2]) - 65 * data[1]
    IN  -65 <= d /\ d <= 65

\* C12 as stated: for every current a in [0.0, 6.0] A (on the mA grid) a
\* current setter that reaches the transport writes exactly [mantissa,
\* exponent], well formed, and 0.065 * mantissa / 2^exponent lies within one
\* quantization step 0.065 / 2^exponent of a.
C12_CurrentWithinOneStep ==
    (/\ op \in CurrentOps
     /\ 0 <= args[1] /\ args[1] <= 6000
     /\ Functional) =>
        /\ Len(calls) = 1 /\ IsWrite(calls[1])
        /\ CurrentPayloadWellFormed(args[1], calls[1].data)
        /\ WithinOneStep(args[1], calls[1].data)

\* The part of C12 that does not concern the distance to a.
C12_PayloadWellFormed ==
    (/\ op \in CurrentOps
     /\ 0 <= args[1] /\ args[1] <= 6000
     /\ Functional) =>
        /\ Len(calls) = 1 /\ IsWrite(calls[1])
        /\ CurrentPayloadWellFormed(args[1], calls[1].data)

----------------------------------------------------------------------------
(* C13 *)

ValidAddress(a) == 1 <= a /\ a <= 127

\* C13 as stated: set_address(cur, new) returns True only if both addresses
\* are in [0x01, 0x7F]; when either is outside, equal addresses included, it
\* returns False without a transport call; a write it issues goes to
\* register 0x04 with the payload [cur, new].
C13_SetAddressRange ==
    op = "set_address" =>
        LET cur == args[1]
            new == args[2]
        IN  /\ result = True => ValidAddress(cur) /\ ValidAddress(new)
            /\ ~(ValidAddress(cur) /\ ValidAddress(new)) =>
                  result = False /\ calls = <<>>
            /\ \A i \in 1..Len(calls) :
                  /\ IsWrite(calls[i]) /\ calls[i].register = 4
                  /\ calls[i].data = <<cur, new>>

\* The part of C13 about pairs of different addresses, and about the write.
C13_DistinctAddresses ==
    (op = "set_address" /\ args[1] # args[2]) =>
        LET cur == args[1]
            new == args[2]
        IN  /\ result = True => ValidAddress(cur) /\ ValidAddress(new)
            /\ ~(ValidAddress(cur) /\ ValidAddress(new)) =>
                  result = False /\ calls = <<>>
            /\ \A i \in 1..Len(calls) :
                  /\ IsWrite(calls[i]) /\ calls[i].register = 4
                  /\ calls[i].data = <<cur, new>>

=============================================================================
